---- MODULE Spec2Model ----
(***************************************************************************)
(* Page-replacement simulator: six policies (FIFO, LRU, OPT, LFU,          *)
(* SimpleCLOCK, EnhancedCLOCK) replayed over one reference trace by the    *)
(* sweep of PageReplacementApp.run_all_simulations.  One policy instance   *)
(* is alive at a time; each iteration of a policy's simulate loop is one   *)
(* step, and each iteration of a clock policy's victim sweep is one step.  *)
(***************************************************************************)
EXTENDS Integers, Sequences, FiniteSets, TLC

\* ---------------------------------------------------------------- bounds
MaxPage == 4
MaxLen == 6
MaxFrames == 3

\* The trace of the worked examples: [1,2,3,4,1,2,5,1,2,3,4,5].
ExampleTrace == <<1, 2, 3, 4, 1, 2, 5, 1, 2, 3, 4, 5>>

Pages == 1..MaxPage

Traces == (UNION {[1..n -> Pages] : n \in 1..MaxLen}) \cup {ExampleTrace}

\* self.algorithms, in the order the sweep instantiates them.
algorithms == <<"FIFO", "LRU", "OPT", "LFU", "SimpleCLOCK", "EnhancedCLOCK">>

\* ------------------------------------------------- Python list / dict helpers
Range(s) == {s[k] : k \in DOMAIN s}

\* list.index(x): 1-based position of the first occurrence, 0 when absent
\* (Python raises ValueError there).
RECURSIVE IndexFrom(_, _, _)
IndexFrom(s, x, k) ==
  IF k > Len(s) THEN 0
  ELSE IF s[k] = x THEN k
  ELSE IndexFrom(s, x, k + 1)

Index(s, x) == IndexFrom(s, x, 1)

\* list.remove(x): drops the first occurrence of x and keeps the order.
Remove(s, x) ==
  LET k == Index(s, x)
  IN  SubSeq(s, 1, k - 1) \o SubSeq(s, k + 1, Len(s))

\* A dict is a sequence of <<key, value>> pairs in insertion order.
DictKeys(d) == [k \in DOMAIN d |-> d[k][1]]

DictHas(d, key) == \E k \in DOMAIN d : d[k][1] = key

DictGet(d, key) == d[CHOOSE k \in DOMAIN d : d[k][1] = key][2]

\* d[key] = v: an existing key keeps its position, a new key goes last.
DictSet(d, key, v) ==
  IF DictHas(d, key)
  THEN [k \in DOMAIN d |-> IF d[k][1] = key THEN <<key, v>> ELSE d[k]]
  ELSE Append(d, <<key, v>>)

\* del d[key]
\* A del that leaves the dictionary as it was.
DictDelKept(d, key) == d

DictDel(d, key) == SelectSeq(d, LAMBDA e : e[1] # key)

\* ------------------------------------------------------------------ state
VARIABLES
  sequence_size_entry,  \* text of the sequence-size entry of the form
  frame_number,     \* text of the frame-number box of the form
  page_sequence,    \* the reference trace, fixed for the whole sweep
  frames,           \* frame count of the instances
  a,                \* index in algorithms of the running policy (7: sweep over)
  pc,               \* "request" | "rejected" | "start" | "loop" | "sweep" |
                    \* "error" | "done"
  i,                \* trace elements processed by the running simulate loop
  memory,           \* self.memory, the resident list
  page_faults,
  page_hits,
  replacements,
  queue,            \* FIFO.queue
  page_time,        \* LRU.page_time
  page_frequency,   \* LFU.page_frequency
  use_bit,          \* clock policies: slot -> use bit
  modify_bit,       \* EnhancedCLOCK: slot -> modify bit
  hand,             \* clock hand
  entry,            \* hand and use bits on entry to the running victim sweep,
                    \* and the iterations its while loop has made
  output_file,      \* snapshots written by the running simulate
  results,          \* algorithm name -> recorded rates
  process_displays  \* algorithm name -> step log shown for it

inst == <<memory, page_faults, page_hits, replacements, queue, page_time,
          page_frequency, use_bit, modify_bit, hand>>

vars == <<sequence_size_entry, frame_number, page_sequence, frames, a, pc, i, memory, page_faults, page_hits,
          replacements, queue, page_time, page_frequency, use_bit, modify_bit,
          hand, entry, output_file, results, process_displays>>

alg == IF a \in DOMAIN algorithms THEN algorithms[a] ELSE "none"

Slots == 0..(frames - 1)

NoBits == [s \in Slots |-> FALSE]

NoEntry == [hand |-> 0, use_bit |-> <<>>, iterations |-> 0]

\* One more iteration of the running victim sweep's while loop has begun;
\* the count is kept up to frames + 2.
Iterated(e) ==
  [e EXCEPT !.iterations = IF @ <= frames + 1 THEN @ + 1 ELSE @]

is_page_in_memory(page) == page \in Range(memory)

\* A fault that is counted twice.
record_page_fault_twice(n) == n + 2

record_page_fault(n) == n + 1

\* A hit that is not counted.
record_page_hit_dropped(n) == n

record_page_hit(n) == n + 1

\* get_page_fault_rate / get_replacement_rate: the quotient is kept as the
\* pair <<numerator, denominator>> the division is applied to.
get_page_fault_rate == <<page_faults, page_faults + page_hits>>

get_replacement_rate == <<replacements, page_faults + page_hits>>

\* The page requested by the current loop iteration.
page == page_sequence[i + 1]

\* The capacity test written one off.
IsFullOffByOne == Len(memory) = frames + 1

IsFull == Len(memory) = frames

\* A text typed into the form: whether it is a number (str.isdigit holds,
\* int() succeeds) and the number it denotes.
Text(number, value) == [number |-> number, value |-> value]

\* The texts of a form whose inputs were accepted for this trace and
\* frame count.
Accepted(trace, n) ==
  /\ sequence_size_entry = Text(TRUE, Len(trace))
  /\ frame_number = Text(TRUE, n)

Init ==
  /\ page_sequence \in Traces
  /\ frames \in 1..MaxFrames
  /\ Accepted(page_sequence, frames)
  /\ a = 1
  /\ pc = "start"
  /\ i = 0
  /\ memory = <<>>
  /\ page_faults = 0
  /\ page_hits = 0
  /\ replacements = 0
  /\ queue = <<>>
  /\ page_time = <<>>
  /\ page_frequency = <<>>
  /\ use_bit = <<>>
  /\ modify_bit = <<>>
  /\ hand = 0
  /\ entry = NoEntry
  /\ output_file = <<>>
  /\ results = [n \in Range(algorithms) |->
                  [page_fault_rates |-> <<>>, replacement_rates |-> <<>>]]
  /\ process_displays = [n \in Range(algorithms) |-> <<>>]

\* algorithm = algorithm_class(frame_count); output_file = io.StringIO()
\* A run that reuses the instance of the run before it.
StartRunStale ==
  /\ pc = "start"
  /\ a \in DOMAIN algorithms
  /\ pc' = "loop"
  /\ i' = 0
  /\ entry' = NoEntry
  /\ output_file' = <<>>
  /\ UNCHANGED <<sequence_size_entry, frame_number, page_sequence, frames, a,
                 inst, results, process_displays>>

StartRun ==
  /\ pc = "start"
  /\ a \in DOMAIN algorithms
  /\ pc' = "loop"
  /\ i' = 0
  /\ memory' = <<>>
  /\ page_faults' = 0
  /\ page_hits' = 0
  /\ replacements' = 0
  /\ queue' = <<>>
  /\ page_time' = <<>>
  /\ page_frequency' = <<>>
  /\ use_bit' = IF alg \in {"SimpleCLOCK", "EnhancedCLOCK"} THEN NoBits ELSE <<>>
  /\ modify_bit' = IF alg = "EnhancedCLOCK" THEN NoBits ELSE <<>>
  /\ hand' = 0
  /\ entry' = NoEntry
  /\ output_file' = <<>>
  /\ UNCHANGED <<sequence_size_entry, frame_number, page_sequence, frames, a,
                 results, process_displays>>

\* The tail of every loop iteration: file.write(... self.memory ...), next element.
Written(mem) ==
  /\ output_file' = Append(output_file, mem)
  /\ i' = i + 1

\* An exception leaves simulate; nothing after it runs.
Raise(faults, hits) ==
  /\ pc' = "error"
  /\ page_faults' = faults
  /\ page_hits' = hits
  /\ UNCHANGED <<sequence_size_entry, frame_number, page_sequence, frames, a, i, memory, replacements,
                 queue, page_time, page_frequency, use_bit, modify_bit, hand,
                 entry, output_file, results, process_displays>>

\* self.queue.pop(): the last element instead of the first.
PopBack(q) == [item |-> q[Len(q)], rest |-> SubSeq(q, 1, Len(q) - 1)]

\* self.queue.pop(0): the element taken and the queue left behind.
PopFront(q) == [item |-> Head(q), rest |-> Tail(q)]

\* One iteration of FIFO.simulate.
FIFOStep ==
  /\ pc = "loop"
  /\ alg = "FIFO"
  /\ i < Len(page_sequence)
  /\ IF ~is_page_in_memory(page)
     THEN IF IsFull /\ (queue = <<>> \/ PopFront(queue).item \notin Range(memory))
          THEN Raise(record_page_fault(page_faults), page_hits)
          ELSE /\ page_faults' = record_page_fault(page_faults)
               /\ IF IsFull
                  THEN /\ memory' = Append(Remove(memory, PopFront(queue).item), page)
                       /\ queue' = Append(PopFront(queue).rest, page)
                       /\ replacements' = replacements + 1
                  ELSE /\ memory' = Append(memory, page)
                       /\ queue' = Append(queue, page)
                       /\ UNCHANGED replacements
               /\ Written(memory')
               /\ UNCHANGED <<sequence_size_entry, frame_number, page_sequence, frames, a, pc, page_hits, page_time,
                              page_frequency, use_bit, modify_bit, hand, entry,
                              results, process_displays>>
     ELSE /\ page_hits' = record_page_hit(page_hits)
          /\ Written(memory)
          /\ UNCHANGED <<sequence_size_entry, frame_number, page_sequence, frames, a, pc, memory, page_faults,
                         replacements, queue, page_time, page_frequency, use_bit,
                         modify_bit, hand, entry, results, process_displays>>

\* max(...) in place of min(...): the most recently used key.
MaxKey(d) ==
  LET m == CHOOSE v \in {d[k][2] : k \in DOMAIN d} :
             \A k \in DOMAIN d : v >= d[k][2]
      first == CHOOSE k \in DOMAIN d :
                 d[k][2] = m /\ \A j \in 1..(k - 1) : d[j][2] # m
  IN  d[first][1]

\* min(self.page_time, key=self.page_time.get): the first key, in dict
\* order, that carries the smallest value.
MinKey(d) ==
  LET m == CHOOSE v \in {d[k][2] : k \in DOMAIN d} :
             \A k \in DOMAIN d : v <= d[k][2]
      first == CHOOSE k \in DOMAIN d :
                 d[k][2] = m /\ \A j \in 1..(k - 1) : d[j][2] # m
  IN  d[first][1]

\* One iteration of LRU.simulate; the local `time` equals i.
LRUStep ==
  /\ pc = "loop"
  /\ alg = "LRU"
  /\ i < Len(page_sequence)
  /\ IF ~is_page_in_memory(page)
     THEN IF IsFull /\ (page_time = <<>> \/ MinKey(page_time) \notin Range(memory))
          THEN Raise(record_page_fault(page_faults), page_hits)
          ELSE /\ page_faults' = record_page_fault(page_faults)
               /\ IF IsFull
                  THEN LET oldest_page == MinKey(page_time)
                       IN  /\ memory' = Append(Remove(memory, oldest_page), page)
                           /\ page_time' = DictSet(DictDel(page_time, oldest_page), page, i)
                           /\ replacements' = replacements + 1
                  ELSE /\ memory' = Append(memory, page)
                       /\ page_time' = DictSet(page_time, page, i)
                       /\ UNCHANGED replacements
               /\ Written(memory')
               /\ UNCHANGED <<sequence_size_entry, frame_number, page_sequence, frames, a, pc, page_hits, queue,
                              page_frequency, use_bit, modify_bit, hand, entry,
                              results, process_displays>>
     ELSE /\ page_hits' = record_page_hit(page_hits)
          /\ page_time' = DictSet(page_time, page, i)
          /\ Written(memory)
          /\ UNCHANGED <<sequence_size_entry, frame_number, page_sequence, frames, a, pc, memory, page_faults,
                         replacements, queue, page_frequency, use_bit,
                         modify_bit, hand, entry, results, process_displays>>

\* OPT.find_longest_unused_page: the scan of self.memory from position k on,
\* carrying last_used and page_to_replace (0 stands for None; list indexes
\* are 1-based here, which leaves their order unchanged).
RECURSIVE ScanUnused(_, _, _, _, _)
ScanUnused(mem, future_sequence, k, last_used, page_to_replace) ==
  IF k > Len(mem) THEN page_to_replace
  ELSE IF mem[k] \notin Range(future_sequence) THEN mem[k]
  ELSE LET index == Index(future_sequence, mem[k])
       IN  IF index > last_used
           THEN ScanUnused(mem, future_sequence, k + 1, index, mem[k])
           ELSE ScanUnused(mem, future_sequence, k + 1, last_used, page_to_replace)

\* The comparison turned round: the page whose next use is nearest.
find_soonest_used_page(mem, future_sequence) ==
  LET gone == {k \in DOMAIN mem : mem[k] \notin Range(future_sequence)}
  IN  IF gone # {}
      THEN mem[CHOOSE k \in gone : \A j \in gone : k <= j]
      ELSE CHOOSE p \in Range(mem) : \A q \in Range(mem) :
             Index(future_sequence, p) <= Index(future_sequence, q)

find_longest_unused_page(mem, future_sequence) ==
  ScanUnused(mem, future_sequence, 1, 0, 0)

\* page_sequence[i + 1:] of the source, for the element being processed.
Future == SubSeq(page_sequence, i + 2, Len(page_sequence))

\* One iteration of OPT.simulate.
OPTStep ==
  /\ pc = "loop"
  /\ alg = "OPT"
  /\ i < Len(page_sequence)
  /\ IF ~is_page_in_memory(page)
     THEN IF IsFull /\ find_longest_unused_page(memory, Future) \notin Range(memory)
          THEN Raise(record_page_fault(page_faults), page_hits)
          ELSE /\ page_faults' = record_page_fault(page_faults)
               /\ IF IsFull
                  THEN LET longest_unused_page ==
                             find_longest_unused_page(memory, Future)
                       IN  /\ memory' = Append(Remove(memory, longest_unused_page), page)
                           /\ replacements' = replacements + 1
                  ELSE /\ memory' = Append(memory, page)
                       /\ UNCHANGED replacements
               /\ Written(memory')
               /\ UNCHANGED <<sequence_size_entry, frame_number, page_sequence, frames, a, pc, page_hits, queue,
                              page_time, page_frequency, use_bit, modify_bit,
                              hand, entry, results, process_displays>>
     ELSE /\ page_hits' = record_page_hit(page_hits)
          /\ Written(memory)
          /\ UNCHANGED <<sequence_size_entry, frame_number, page_sequence, frames, a, pc, memory, page_faults,
                         replacements, queue, page_time, page_frequency, use_bit,
                         modify_bit, hand, entry, results, process_displays>>

\* The tie among least frequent pages broken by the latest resident.
find_least_frequent_page_last(mem, freq) ==
  LET least_used == CHOOSE v \in {freq[k][2] : k \in DOMAIN freq} :
                      \A k \in DOMAIN freq : v <= freq[k][2]
      least_frequent_pages == {freq[k][1] : k \in {j \in DOMAIN freq : freq[j][2] = least_used}}
      hits == {k \in DOMAIN mem : mem[k] \in least_frequent_pages}
  IN  IF hits = {} THEN 0
      ELSE mem[CHOOSE k \in hits : \A j \in hits : k >= j]

\* LFU.find_least_frequent_page (0 stands for the None of a scan that
\* returns nothing).
find_least_frequent_page(mem, freq) ==
  LET least_used == CHOOSE v \in {freq[k][2] : k \in DOMAIN freq} :
                      \A k \in DOMAIN freq : v <= freq[k][2]
      least_frequent_pages == {freq[k][1] : k \in {j \in DOMAIN freq : freq[j][2] = least_used}}
      hits == {k \in DOMAIN mem : mem[k] \in least_frequent_pages}
  IN  IF hits = {} THEN 0
      ELSE mem[CHOOSE k \in hits : \A j \in hits : k <= j]

\* One iteration of LFU.simulate.
LFUStep ==
  /\ pc = "loop"
  /\ alg = "LFU"
  /\ i < Len(page_sequence)
  /\ IF ~is_page_in_memory(page)
     THEN IF IsFull /\ (page_frequency = <<>>
                        \/ find_least_frequent_page(memory, page_frequency) \notin Range(memory))
          THEN Raise(record_page_fault(page_faults), page_hits)
          ELSE /\ page_faults' = record_page_fault(page_faults)
               /\ IF IsFull
                  THEN LET least_frequent_page ==
                             find_least_frequent_page(memory, page_frequency)
                       IN  /\ memory' = Append(Remove(memory, least_frequent_page), page)
                           /\ page_frequency' =
                                DictSet(DictDel(page_frequency, least_frequent_page), page, 1)
                           /\ replacements' = replacements + 1
                  ELSE /\ memory' = Append(memory, page)
                       /\ page_frequency' = DictSet(page_frequency, page, 1)
                       /\ UNCHANGED replacements
               /\ Written(memory')
               /\ UNCHANGED <<sequence_size_entry, frame_number, page_sequence, frames, a, pc, page_hits, queue,
                              page_time, use_bit, modify_bit, hand, entry,
                              results, process_displays>>
     ELSE IF ~DictHas(page_frequency, page)
     THEN Raise(page_faults, record_page_hit(page_hits))
     ELSE /\ page_hits' = record_page_hit(page_hits)
          /\ page_frequency' = DictSet(page_frequency, page, DictGet(page_frequency, page) + 1)
          /\ Written(memory)
          /\ UNCHANGED <<sequence_size_entry, frame_number, page_sequence, frames, a, pc, memory, page_faults,
                         replacements, queue, page_time, use_bit, modify_bit,
                         hand, entry, results, process_displays>>

\* The hand left where it is.
AdvanceStuck(h) == h

\* The hand moved on without the wrap-around.
AdvanceNoWrap(h) == h + 1

\* hand = (hand + 1) % frames
Advance(h) == (h + 1) % frames

\* SimpleCLOCK.simulate, page not resident: the fault is recorded and the
\* victim sweep is entered.
SimpleCLOCKFault ==
  /\ pc = "loop"
  /\ alg = "SimpleCLOCK"
  /\ i < Len(page_sequence)
  /\ ~is_page_in_memory(page)
  /\ IF hand \notin DOMAIN use_bit
     THEN \* KeyError at the first read of self.use_bit[self.hand]
          Raise(record_page_fault(page_faults), page_hits)
     ELSE /\ page_faults' = record_page_fault(page_faults)
          /\ entry' = [hand |-> hand, use_bit |-> use_bit, iterations |-> 0]
          /\ pc' = "sweep"
          /\ UNCHANGED <<sequence_size_entry, frame_number, page_sequence,
                         frames, a, i, memory, page_hits, replacements, queue,
                         page_time, page_frequency, use_bit, modify_bit, hand,
                         output_file, results, process_displays>>

\* One iteration of `while self.use_bit[self.hand]`.
SimpleCLOCKSweep ==
  /\ pc = "sweep"
  /\ alg = "SimpleCLOCK"
  /\ use_bit[hand]
  /\ use_bit' = [use_bit EXCEPT ![hand] = FALSE]
  /\ hand' = Advance(hand)
  /\ entry' = Iterated(entry)
  /\ UNCHANGED <<sequence_size_entry, frame_number, page_sequence, frames, a, pc, i, memory, page_faults, page_hits,
                 replacements, queue, page_time, page_frequency, modify_bit,
                 output_file, results, process_displays>>

\* The sweep has stopped: the page is placed and its use bit set.
SimpleCLOCKInstall ==
  /\ pc = "sweep"
  /\ alg = "SimpleCLOCK"
  /\ ~use_bit[hand]
  /\ IF IsFull
     THEN /\ memory' = [memory EXCEPT ![hand + 1] = page]
          /\ replacements' = replacements + 1
     ELSE /\ memory' = Append(memory, page)
          /\ UNCHANGED replacements
  /\ use_bit' = [use_bit EXCEPT ![hand] = TRUE]
  /\ Written(memory')
  /\ pc' = "loop"
  /\ UNCHANGED <<sequence_size_entry, frame_number, page_sequence, frames, a, page_faults, page_hits, queue,
                 page_time, page_frequency, modify_bit, hand, entry, results,
                 process_displays>>

\* The slot under the hand taken for the slot of the page.
page_index_hand == hand

\* page_index = self.memory.index(page), for a resident page.
page_index == Index(memory, page) - 1

\* SimpleCLOCK.simulate, page resident.
SimpleCLOCKHit ==
  /\ pc = "loop"
  /\ alg = "SimpleCLOCK"
  /\ i < Len(page_sequence)
  /\ is_page_in_memory(page)
  /\ page_hits' = record_page_hit(page_hits)
  /\ use_bit' = [use_bit EXCEPT ![page_index] = TRUE]
  /\ Written(memory)
  /\ UNCHANGED <<sequence_size_entry, frame_number, page_sequence, frames, a, pc, memory, page_faults, replacements,
                 queue, page_time, page_frequency, modify_bit, hand, entry,
                 results, process_displays>>

\* EnhancedCLOCK.simulate, page not resident: the fault is recorded,
\* replaced = False, and the sweep is entered.
EnhancedCLOCKFault ==
  /\ pc = "loop"
  /\ alg = "EnhancedCLOCK"
  /\ i < Len(page_sequence)
  /\ ~is_page_in_memory(page)
  /\ IF hand \notin DOMAIN use_bit
     THEN \* KeyError at the first read of self.use_bit[self.hand]
          Raise(record_page_fault(page_faults), page_hits)
     ELSE /\ page_faults' = record_page_fault(page_faults)
          /\ entry' = [hand |-> hand, use_bit |-> use_bit, iterations |-> 0]
          /\ pc' = "sweep"
          /\ UNCHANGED <<sequence_size_entry, frame_number, page_sequence,
                         frames, a, i, memory, page_hits, replacements, queue,
                         page_time, page_frequency, use_bit, modify_bit, hand,
                         output_file, results, process_displays>>

\* The test that lets EnhancedCLOCK take the slot under the hand.
Replaceable(h) == ~use_bit[h] /\ ~modify_bit[h]

\* One iteration of `while not replaced` that takes the else branch.
EnhancedCLOCKSweep ==
  /\ pc = "sweep"
  /\ alg = "EnhancedCLOCK"
  /\ ~Replaceable(hand)
  /\ use_bit' = [use_bit EXCEPT ![hand] = FALSE]
  /\ hand' = Advance(hand)
  /\ entry' = Iterated(entry)
  /\ UNCHANGED <<sequence_size_entry, frame_number, page_sequence, frames, a, pc, i, memory, page_faults, page_hits,
                 replacements, queue, page_time, page_frequency, modify_bit,
                 output_file, results, process_displays>>

\* The modify bit set, not reset, on the slot that is filled.
InstalledModifyBitSet == TRUE

\* The modify bit EnhancedCLOCK writes to the slot it fills.
InstalledModifyBit == FALSE

\* The last iteration of `while not replaced`: the page is placed, the hand
\* moves on, the loop ends and use_bit[self.hand] is set.
EnhancedCLOCKInstall ==
  /\ pc = "sweep"
  /\ alg = "EnhancedCLOCK"
  /\ Replaceable(hand)
  /\ IF IsFull
     THEN /\ memory' = [memory EXCEPT ![hand + 1] = page]
          /\ replacements' = replacements + 1
     ELSE /\ memory' = Append(memory, page)
          /\ UNCHANGED replacements
  /\ modify_bit' = [modify_bit EXCEPT ![hand] = InstalledModifyBit]
  /\ hand' = Advance(hand)
  /\ use_bit' = [use_bit EXCEPT ![hand'] = TRUE]
  /\ Written(memory')
  /\ pc' = "loop"
  /\ entry' = Iterated(entry)
  /\ UNCHANGED <<sequence_size_entry, frame_number, page_sequence, frames, a, page_faults, page_hits, queue,
                 page_time, page_frequency, results, process_displays>>

\* EnhancedCLOCK.simulate, page resident.
EnhancedCLOCKHit ==
  /\ pc = "loop"
  /\ alg = "EnhancedCLOCK"
  /\ i < Len(page_sequence)
  /\ is_page_in_memory(page)
  /\ page_hits' = record_page_hit(page_hits)
  /\ use_bit' = [use_bit EXCEPT ![page_index] = TRUE]
  /\ Written(memory)
  /\ UNCHANGED <<sequence_size_entry, frame_number, page_sequence, frames, a, pc, memory, page_faults, replacements,
                 queue, page_time, page_frequency, modify_bit, hand, entry,
                 results, process_displays>>

\* After simulate returns: the rates are appended and the log is displayed;
\* the sweep moves to the next algorithm.
EndRun ==
  /\ pc = "loop"
  /\ i = Len(page_sequence)
  /\ IF page_faults + page_hits = 0
     THEN \* ZeroDivisionError in get_page_fault_rate
          /\ pc' = "error"
          /\ UNCHANGED <<a, results, process_displays>>
     ELSE /\ results' = [results EXCEPT
                ![alg].page_fault_rates = Append(@, get_page_fault_rate),
                ![alg].replacement_rates = Append(@, get_replacement_rate)]
          /\ process_displays' = [process_displays EXCEPT ![alg] = output_file]
          /\ a' = a + 1
          /\ pc' = IF a = Len(algorithms) THEN "done" ELSE "start"
  /\ UNCHANGED <<sequence_size_entry, frame_number, page_sequence, frames, i,
                 inst, entry, output_file>>

Next ==
  \/ StartRun
  \/ FIFOStep
  \/ LRUStep
  \/ OPTStep
  \/ LFUStep
  \/ SimpleCLOCKFault
  \/ SimpleCLOCKSweep
  \/ SimpleCLOCKInstall
  \/ SimpleCLOCKHit
  \/ EnhancedCLOCKFault
  \/ EnhancedCLOCKSweep
  \/ EnhancedCLOCKInstall
  \/ EnhancedCLOCKHit
  \/ EndRun

Spec == Init /\ [][Next]_vars

\* ------------------------------------------- the form's single-run handler
\* The largest sequence size is_valid_size accepts.
MaxSize == 200

\* self.frame_counts
frame_counts == <<2, 3, 4, 5, 6, 7, 8>>

\* Any zero-or-more number accepted as a size.
is_valid_size_zero(user_input) ==
  user_input.number /\ user_input.value >= 0 /\ user_input.value <= MaxSize

\* is_valid_size: digits only, and 0 < size <= 200.
is_valid_size(user_input) ==
  user_input.number /\ user_input.value > 0 /\ user_input.value <= MaxSize

\* Any text that int() converts accepted as a frame number.
is_valid_frame_number_any(input) == input.number

\* is_valid_frame_number: int() succeeds and the number is in frame_counts.
is_valid_frame_number(input) ==
  input.number /\ input.value \in Range(frame_counts)

\* Texts a user can leave in the two inputs of the form.
SizeTexts ==
  {Text(TRUE, n) : n \in 0..MaxLen} \cup {Text(TRUE, MaxSize + 1), Text(FALSE, 0)}

FrameTexts ==
  {Text(TRUE, n) : n \in (-1)..MaxFrames} \cup {Text(FALSE, 0)}

\* The form before "run simulation" is pressed: the inputs are typed and an
\* algorithm is selected; no trace and no policy instance exist yet.
InitRequest ==
  /\ sequence_size_entry \in SizeTexts
  /\ frame_number \in FrameTexts
  /\ a \in DOMAIN algorithms
  /\ pc = "request"
  /\ page_sequence = <<>>
  /\ frames = 0
  /\ i = 0
  /\ memory = <<>>
  /\ page_faults = 0
  /\ page_hits = 0
  /\ replacements = 0
  /\ queue = <<>>
  /\ page_time = <<>>
  /\ page_frequency = <<>>
  /\ use_bit = <<>>
  /\ modify_bit = <<>>
  /\ hand = 0
  /\ entry = NoEntry
  /\ output_file = <<>>
  /\ results = [n \in Range(algorithms) |->
                  [page_fault_rates |-> <<>>, replacement_rates |-> <<>>]]
  /\ process_displays = [n \in Range(algorithms) |-> <<>>]

\* run_simulation up to the construction of the policy: both inputs are
\* validated, then the trace is generated and the frame count read.
run_simulation ==
  /\ pc = "request"
  /\ IF ~is_valid_size(sequence_size_entry) \/ ~is_valid_frame_number(frame_number)
     THEN /\ pc' = "rejected"
          /\ UNCHANGED <<page_sequence, frames>>
     ELSE /\ page_sequence' \in [1..sequence_size_entry.value -> Pages]
          /\ frames' = frame_number.value
          /\ pc' = "start"
  /\ UNCHANGED <<sequence_size_entry, frame_number, a, i, inst, entry,
                 output_file, results, process_displays>>

\* run_simulation after simulate returns: the log is displayed, then the
\* two rates are appended.
ShowSimulation ==
  /\ pc = "loop"
  /\ i = Len(page_sequence)
  /\ process_displays' = [process_displays EXCEPT ![alg] = output_file]
  /\ IF page_faults + page_hits = 0
     THEN \* ZeroDivisionError in get_page_fault_rate
          /\ pc' = "error"
          /\ UNCHANGED results
     ELSE /\ results' = [results EXCEPT
                ![alg].page_fault_rates = Append(@, get_page_fault_rate),
                ![alg].replacement_rates = Append(@, get_replacement_rate)]
          /\ pc' = "done"
  /\ UNCHANGED <<sequence_size_entry, frame_number, page_sequence, frames, a,
                 i, inst, entry, output_file>>

NextRequest ==
  \/ run_simulation
  \/ StartRun
  \/ FIFOStep
  \/ LRUStep
  \/ OPTStep
  \/ LFUStep
  \/ SimpleCLOCKFault
  \/ SimpleCLOCKSweep
  \/ SimpleCLOCKInstall
  \/ SimpleCLOCKHit
  \/ EnhancedCLOCKFault
  \/ EnhancedCLOCKSweep
  \/ EnhancedCLOCKInstall
  \/ EnhancedCLOCKHit
  \/ ShowSimulation

SpecRequest == InitRequest /\ [][NextRequest]_vars

\* ------------------------------ the module's own sweep function
\* test_page_replacement_algorithms(algorithms, page_sequence, frame_counts,
\* file) on entry to its loops: the caller's first class is algorithms[a],
\* its first frame count is `frames`, and results maps every class name to
\* an empty list.  No form is involved.
InitLib ==
  /\ sequence_size_entry = Text(FALSE, 0)
  /\ frame_number = Text(FALSE, 0)
  /\ page_sequence \in Traces
  /\ frames \in 1..MaxFrames
  /\ a \in DOMAIN algorithms
  /\ pc = "start"
  /\ i = 0
  /\ memory = <<>>
  /\ page_faults = 0
  /\ page_hits = 0
  /\ replacements = 0
  /\ queue = <<>>
  /\ page_time = <<>>
  /\ page_frequency = <<>>
  /\ use_bit = <<>>
  /\ modify_bit = <<>>
  /\ hand = 0
  /\ entry = NoEntry
  /\ output_file = <<>>
  /\ results = [n \in Range(algorithms) |-> <<>>]
  /\ process_displays = [n \in Range(algorithms) |-> <<>>]

\* The two appends after simulate returns.  results[name] is subscripted
\* with 'page_fault_rates' before the rate is computed; on a list that is
\* a TypeError.
RecordRates ==
  /\ pc = "loop"
  /\ i = Len(page_sequence)
  /\ IF "page_fault_rates" \notin DOMAIN results[alg]
     THEN /\ pc' = "error"
          /\ UNCHANGED <<a, results>>
     ELSE /\ results' = [results EXCEPT
                ![alg].page_fault_rates = Append(@, get_page_fault_rate),
                ![alg].replacement_rates = Append(@, get_replacement_rate)]
          /\ a' = a + 1
          /\ pc' = IF a = Len(algorithms) THEN "done" ELSE "start"
  /\ UNCHANGED <<sequence_size_entry, frame_number, page_sequence, frames, i,
                 inst, entry, output_file, process_displays>>

NextLib ==
  \/ StartRun
  \/ FIFOStep
  \/ LRUStep
  \/ OPTStep
  \/ LFUStep
  \/ SimpleCLOCKFault
  \/ SimpleCLOCKSweep
  \/ SimpleCLOCKInstall
  \/ SimpleCLOCKHit
  \/ EnhancedCLOCKFault
  \/ EnhancedCLOCKSweep
  \/ EnhancedCLOCKInstall
  \/ EnhancedCLOCKHit
  \/ RecordRates

SpecLib == InitLib /\ [][NextLib]_vars

\* ------------------------------------------------ reading the step logs
\* log[k] is the resident list written after the k-th reference.
HitAt(log, k) == k > 1 /\ page_sequence[k] \in Range(log[k - 1])

\* The k-th reference faulted into a full resident list.
EvictionAt(log, k) ==
  /\ k > 1
  /\ Len(log[k - 1]) = frames
  /\ page_sequence[k] \notin Range(log[k - 1])

EvictedAt(log, k) == Range(log[k - 1]) \ Range(log[k])

\* The step at which p, resident after step k, entered its current residency.
InsertedAt(log, p, k) ==
  CHOOSE j \in 1..k :
    /\ \A m \in j..k : p \in Range(log[m])
    /\ j = 1 \/ p \notin Range(log[j - 1])

\* The run of algorithm n is over and its rates are recorded.
Finished(n) == results[n].page_fault_rates # <<>>

FinalFaults(n) == results[n].page_fault_rates[1][1]

FinalSteps(n) == results[n].page_fault_rates[1][2]

FinalHits(n) == FinalSteps(n) - FinalFaults(n)

FinalReplacements(n) == results[n].replacement_rates[1][1]

Names == Range(algorithms)

\* The live instance is an instance of algorithm n, inside simulate.
Running(n) == alg = n /\ pc \in {"loop", "sweep"}

\* The running loop iteration evicts: a fault into a full resident list.
Evicting(n) ==
  /\ alg = n
  /\ a' = a
  /\ replacements' = replacements + 1

\* ----------------------------------------------------------------- C1
\* C1: for each of the six policies the resident list holds at most
\* `frames` pages after every processed reference (and in between).
C1_ResidentBound ==
  /\ Len(memory) <= frames
  /\ \A k \in DOMAIN output_file : Len(output_file[k]) <= frames
  /\ \A n \in Names : \A k \in DOMAIN process_displays[n] :
        Len(process_displays[n][k]) <= frames

\* Every policy has run to a full resident list and replaced a page.
C1_Witness ==
  /\ pc = "done"
  /\ \A n \in Names :
        /\ Len(process_displays[n][Len(page_sequence)]) = frames
        /\ FinalReplacements(n) > 0

\* ----------------------------------------------------------------- C2
\* C2: after k processed references page_faults + page_hits = k; at the
\* end of a run the sum is the trace length.
C2_CountersSumToSteps ==
  /\ Len(output_file) = i
  /\ pc # "sweep" => page_faults + page_hits = i
  /\ pc = "sweep" => page_faults + page_hits = i + 1
  /\ \A n \in Names : Finished(n) => FinalSteps(n) = Len(page_sequence)

\* Every policy has finished a run that had both hits and faults.
C2_Witness ==
  /\ pc = "done"
  /\ \A n \in Names : FinalFaults(n) > 0 /\ FinalHits(n) > 0

\* ----------------------------------------------------------------- C3
\* C3: whenever FIFO evicts, the evicted page is the resident page that
\* entered the resident list earliest, which is the front of the queue,
\* whatever hits happened since.
C3_FIFOEvictsEarliestInserted ==
  [][Evicting("FIFO") =>
       \E v \in Range(memory) :
         /\ Range(memory) \ Range(memory') = {v}
         /\ v = Head(queue)
         /\ \A q \in Range(memory) :
              InsertedAt(output_file, v, i) <= InsertedAt(output_file, q, i)]_vars

\* FIFO evicted a page that had been hit after it was inserted.
C3_Witness ==
  /\ Running("FIFO")
  /\ \E k, j \in DOMAIN output_file :
        /\ k < j
        /\ HitAt(output_file, k)
        /\ EvictionAt(output_file, j)
        /\ page_sequence[k] \in EvictedAt(output_file, j)

\* ----------------------------------------------------------------- C4
\* The step of the most recent reference to p among the first k references.
LastRef(p, k) ==
  CHOOSE j \in 1..k :
    page_sequence[j] = p /\ \A m \in (j + 1)..k : page_sequence[m] # p

\* C4: whenever LRU evicts, the evicted page is the resident page whose
\* most recent reference (insertion or hit) has the smallest step index.
C4_LRUEvictsLeastRecent ==
  [][Evicting("LRU") =>
       \E v \in Range(memory) :
         /\ Range(memory) \ Range(memory') = {v}
         /\ \A q \in Range(memory) : LastRef(v, i) <= LastRef(q, i)]_vars

\* LRU evicted a page other than the earliest inserted one.
C4_Witness ==
  /\ Running("LRU")
  /\ \E j \in DOMAIN output_file :
        /\ EvictionAt(output_file, j)
        /\ output_file[j - 1][1] \notin EvictedAt(output_file, j)

\* ----------------------------------------------------------------- C5
\* C5: whenever OPT evicts, the evicted page is a resident page absent from
\* the trace after the current reference if there is one; otherwise it is
\* the resident page whose first occurrence in that suffix is farthest.
C5_OPTEvictsFarthest ==
  [][Evicting("OPT") =>
       \E v \in Range(memory) :
         /\ Range(memory) \ Range(memory') = {v}
         /\ IF \E q \in Range(memory) : q \notin Range(Future)
            THEN v \notin Range(Future)
            ELSE \A q \in Range(memory) :
                   Index(Future, q) <= Index(Future, v)]_vars

\* The references after the k-th one.
Suffix(k) == SubSeq(page_sequence, k + 1, Len(page_sequence))

\* OPT evicted once with every resident page still to come and once with a
\* resident page that never comes again.
C5_Witness ==
  /\ Running("OPT")
  /\ frames >= 2
  /\ \E j \in DOMAIN output_file :
        /\ EvictionAt(output_file, j)
        /\ Range(output_file[j - 1]) \subseteq Range(Suffix(j))
  /\ \E j \in DOMAIN output_file :
        /\ EvictionAt(output_file, j)
        /\ \E q \in Range(output_file[j - 1]) : q \notin Range(Suffix(j))
        /\ \E q \in Range(output_file[j - 1]) : q \in Range(Suffix(j))

\* ----------------------------------------------------------------- C6
\* References to p from its insertion up to step k: 1 for the insertion
\* plus 1 for each hit since.
RefsSinceInsertion(log, p, k) ==
  Cardinality({m \in InsertedAt(log, p, k)..k : page_sequence[m] = p})

\* The counters LFU keeps are those of the resident pages, each equal to 1
\* plus the hits since the page was inserted.
LFUCounters ==
  /\ {page_frequency[k][1] : k \in DOMAIN page_frequency} = Range(memory)
  /\ \A p \in Range(memory) :
        DictGet(page_frequency, p) = RefsSinceInsertion(output_file, p, i)

\* C6: an LFU counter is 1 at insertion and grows by 1 on each hit; whenever
\* LFU evicts, the evicted page has the minimum counter among resident
\* pages and is the earliest inserted of those at the minimum.
C6_LFUEvictsLeastFrequent ==
  [][/\ (alg = "LFU" /\ a' = a) => LFUCounters'
     /\ Evicting("LFU") =>
          \E v \in Range(memory) :
            /\ Range(memory) \ Range(memory') = {v}
            /\ \A q \in Range(memory) :
                 \/ DictGet(page_frequency, v) < DictGet(page_frequency, q)
                 \/ /\ DictGet(page_frequency, v) = DictGet(page_frequency, q)
                    /\ InsertedAt(output_file, v, i) <= InsertedAt(output_file, q, i)]_vars

\* LFU evicted once a page that was not the earliest inserted (its counter
\* decided) and once the earliest inserted of several tied at the minimum.
C6_Witness ==
  /\ Running("LFU")
  /\ \E j \in DOMAIN output_file :
        /\ EvictionAt(output_file, j)
        /\ output_file[j - 1][1] \notin EvictedAt(output_file, j)
  /\ \E j \in DOMAIN output_file :
        /\ EvictionAt(output_file, j)
        /\ \E v \in EvictedAt(output_file, j) :
             \E q \in Range(output_file[j - 1]) \ {v} :
               RefsSinceInsertion(output_file, q, j - 1)
                 = RefsSinceInsertion(output_file, v, j - 1)

\* ----------------------------------------------------------------- C7
\* Slots the hand visits in d moves from h.
Passed(h, d) == {(h + j) % frames : j \in 0..(d - 1)}

\* Moves a sweep entered at hand h with use bits u makes before it stops:
\* up to the first slot with a false use bit, a full turn if there is none.
SweepLength(h, u) ==
  CHOOSE d \in 0..frames :
    /\ d = frames \/ ~u[(h + d) % frames]
    /\ \A j \in 0..(d - 1) : u[(h + j) % frames]

\* SimpleCLOCK places the page into a full resident list.
SimpleReplacing ==
  /\ alg = "SimpleCLOCK"
  /\ pc = "sweep"
  /\ pc' = "loop"
  /\ Len(memory) = frames

\* C7: whenever SimpleCLOCK faults with a full resident list, the slot
\* replaced is the first one, going round from the hand's position before
\* the fault, whose use bit is false when the hand reaches it; the use bit
\* of every slot the hand passed is cleared and no other slot changes page.
C7_SimpleCLOCKVictim ==
  [][SimpleReplacing =>
       LET d == SweepLength(entry.hand, entry.use_bit)
           slot == (entry.hand + d) % frames
       IN  /\ hand = slot
           /\ memory' = [memory EXCEPT ![slot + 1] = page]
           /\ \A s \in Slots :
                use_bit[s] = (s \notin Passed(entry.hand, d) /\ entry.use_bit[s])
           /\ \A s \in Slots \ {slot} : use_bit'[s] = use_bit[s]]_vars

\* SimpleCLOCK has just replaced a page after a sweep that passed some
\* slots and stopped before a full turn.
C7_Witness ==
  /\ Running("SimpleCLOCK")
  /\ pc = "loop"
  /\ i >= 2
  /\ EvictionAt(output_file, i)
  /\ entry.use_bit[entry.hand]
  /\ \E s \in Slots : ~entry.use_bit[s]

\* ----------------------------------------------------------------- C8
\* C8 as stated: EnhancedCLOCK and SimpleCLOCK write the same resident-list
\* snapshot after every step and end with the same page_faults, page_hits
\* and replacements, for every trace and frame count.
C8_ClockPoliciesIdentical ==
  pc = "done" =>
    /\ process_displays["EnhancedCLOCK"] = process_displays["SimpleCLOCK"]
    /\ results["EnhancedCLOCK"] = results["SimpleCLOCK"]

\* C8, amended: no reference ever sets a modify bit of EnhancedCLOCK, and
\* with a single frame EnhancedCLOCK and SimpleCLOCK write the same
\* snapshot after every step and end with the same counters.
C8_ModifyNeverSetSameWithOneFrame ==
  /\ Running("EnhancedCLOCK") => \A s \in Slots : ~modify_bit[s]
  /\ (pc = "done" /\ frames = 1) =>
       /\ process_displays["EnhancedCLOCK"] = process_displays["SimpleCLOCK"]
       /\ results["EnhancedCLOCK"] = results["SimpleCLOCK"]

\* Both clock policies have finished a single-frame run with hits and
\* replacements.
C8_Witness ==
  /\ pc = "done"
  /\ frames = 1
  /\ FinalReplacements("EnhancedCLOCK") > 1
  /\ FinalHits("EnhancedCLOCK") > 0

\* ----------------------------------------------------------------- C9
\* The sweep runs the example trace with 3 frames and LRU has finished.
ExampleRun(n) ==
  /\ page_sequence = ExampleTrace
  /\ frames = 3
  /\ Finished(n)

\* C9 as stated: on the example trace with 3 frames LRU hits on the request
\* of page 1 at step 5, page 1 still being resident, and FIFO's outcome at
\* that step is different.
C9_LRUHitsAtStepFive ==
  (ExampleRun("FIFO") /\ ExampleRun("LRU")) =>
    /\ HitAt(process_displays["LRU"], 5)
    /\ HitAt(process_displays["LRU"], 5) # HitAt(process_displays["FIFO"], 5)

\* C9, amended: on the example trace with 3 frames LRU faults on the
\* request of page 1 at step 5, page 1 having been evicted at step 4, and
\* FIFO faults at that step too.
C9_LRUFaultsAtStepFive ==
  (ExampleRun("FIFO") /\ ExampleRun("LRU")) =>
    /\ page_sequence[5] = 1
    /\ EvictedAt(process_displays["LRU"], 4) = {1}
    /\ ~HitAt(process_displays["LRU"], 5)
    /\ ~HitAt(process_displays["FIFO"], 5)

\* LRU and FIFO have both run the example trace with 3 frames.
C9_Witness ==
  /\ ExampleRun("FIFO")
  /\ ExampleRun("LRU")
  /\ Len(process_displays["LRU"]) = 12

\* ---------------------------------------------------------------- C10
\* C10: on the example trace with 3 frames FIFO ends with 9 faults, 3 hits
\* and 6 replacements; the resident set after step 4 is {2,3,4}, page 1
\* being the first page evicted.
C10_FIFOExample ==
  ExampleRun("FIFO") =>
    /\ FinalFaults("FIFO") = 9
    /\ FinalHits("FIFO") = 3
    /\ FinalReplacements("FIFO") = 6
    /\ Range(process_displays["FIFO"][4]) = {2, 3, 4}
    /\ EvictedAt(process_displays["FIFO"], 4) = {1}
    /\ \A k \in 2..3 : ~EvictionAt(process_displays["FIFO"], k)

\* FIFO has run the example trace with 3 frames to its end.
C10_Witness ==
  /\ ExampleRun("FIFO")
  /\ Len(process_displays["FIFO"]) = 12
  /\ a = 2

\* ---------------------------------------------------------------- C11
\* C11: with one frame every policy holds, after each reference, exactly
\* the page just requested (a differing resident page is evicted for it),
\* and a finished run has replacements = page_faults - 1.
C11_SingleFrame ==
  frames = 1 =>
    /\ \A k \in DOMAIN output_file : output_file[k] = <<page_sequence[k]>>
    /\ (pc = "loop" /\ i >= 1) =>
         /\ memory = <<page_sequence[i]>>
         /\ replacements = page_faults - 1
    /\ \A n \in Names :
         /\ \A k \in DOMAIN process_displays[n] :
              process_displays[n][k] = <<page_sequence[k]>>
         /\ Finished(n) => FinalReplacements(n) = FinalFaults(n) - 1

\* Every policy has finished a single-frame run with hits and several
\* evictions of the sole resident page.
C11_Witness ==
  /\ pc = "done"
  /\ frames = 1
  /\ \A n \in Names : FinalReplacements(n) >= 2 /\ FinalHits(n) >= 1

\* ---------------------------------------------------------------- C12
\* A step of the live instance that finishes a reference.
FinishesReference ==
  /\ pc \in {"loop", "sweep"}
  /\ a' = a
  /\ i' = i + 1

\* C12: replacements <= page_faults after every step, and replacements
\* grows, by one, on exactly the references that fault while the resident
\* list already holds `frames` pages.
C12_ReplacementsCountFullFaults ==
  [][/\ replacements' <= page_faults'
     /\ FinishesReference =>
          replacements' =
            IF ~is_page_in_memory(page) /\ Len(memory) = frames
            THEN replacements + 1
            ELSE replacements
     /\ (pc \in {"loop", "sweep"} /\ a' = a /\ i' = i) =>
          replacements' = replacements]_vars

\* Every policy has finished a run with faults that filled free frames and
\* faults that replaced a page.
C12_Witness ==
  /\ pc = "done"
  /\ frames >= 2
  /\ \A n \in Names :
        /\ FinalReplacements(n) >= 1
        /\ FinalFaults(n) = FinalReplacements(n) + frames

\* ---------------------------------------------------------------- C13
Clocks == {"SimpleCLOCK", "EnhancedCLOCK"}

\* A clock policy processes a reference to a resident page.
ClockHit ==
  /\ alg \in Clocks
  /\ pc = "loop"
  /\ a' = a
  /\ i' = i + 1
  /\ is_page_in_memory(page)

\* C13: a hit of SimpleCLOCK or EnhancedCLOCK counts the hit and sets the
\* use bit of the slot that holds the page; the resident list, the hand,
\* the modify bits, the other use bits and the other counters stay.
C13_ClockHitFrame ==
  [][ClockHit =>
       /\ page_hits' = page_hits + 1
       /\ \A s \in Slots :
            use_bit'[s] = IF s < Len(memory) /\ memory[s + 1] = page
                          THEN TRUE ELSE use_bit[s]
       /\ DOMAIN use_bit' = Slots
       /\ UNCHANGED <<memory, hand, modify_bit, page_faults, replacements>>]_vars

\* A clock policy has just hit a page whose slot is not under the hand
\* while another slot's use bit was false.
C13_Witness ==
  /\ Running("EnhancedCLOCK") \/ Running("SimpleCLOCK")
  /\ pc = "loop"
  /\ i >= 2
  /\ HitAt(output_file, i)
  /\ Index(memory, page_sequence[i]) - 1 # hand
  /\ \E s \in Slots : ~use_bit[s]

\* ---------------------------------------------------------------- C14
\* C14: the hand of SimpleCLOCK and of EnhancedCLOCK is a slot index,
\* 0 <= hand < frames, in every state of a run, inside a sweep too.
C14_HandInRange ==
  (Running("SimpleCLOCK") \/ Running("EnhancedCLOCK")) =>
    hand \in Int /\ 0 <= hand /\ hand < frames

\* A sweep in progress has taken the hand from the last slot round to an
\* earlier one.
C14_Witness ==
  /\ Running("SimpleCLOCK") \/ Running("EnhancedCLOCK")
  /\ pc = "sweep"
  /\ frames >= 2
  /\ entry.hand = frames - 1
  /\ hand < entry.hand

\* ---------------------------------------------------------------- C15
\* Nothing of a simulation exists: no trace element was processed and the
\* counters and resident list are as they were before the request.
NothingSimulated ==
  /\ pc \in {"request", "rejected"}
  /\ i = 0
  /\ memory = <<>>
  /\ page_faults = 0 /\ page_hits = 0 /\ replacements = 0
  /\ output_file = <<>>
  /\ \A n \in Names : ~Finished(n) /\ process_displays[n] = <<>>

\* C15: a run requested with a frame count below 1 is rejected before the
\* simulation starts, whatever the policy and the sequence size: nothing
\* is processed or changed.
C15_InvalidCapacityRejected ==
  (frame_number.number /\ frame_number.value < 1) => NothingSimulated

\* A request with a valid size and a frame count below 1 has been rejected.
C15_Witness ==
  /\ pc = "rejected"
  /\ is_valid_size(sequence_size_entry)
  /\ frame_number.number
  /\ frame_number.value < 1

\* ---------------------------------------------------------------- C16
\* C16: for every frame count N >= 1 and every trace each of the six
\* policies processes every element without failing: no run ends in an
\* exception (remove of a non-resident page, min of an empty dictionary,
\* a None victim, a missing slot or bit), the hand and the bits stay on
\* the slots 0..N-1, and a finished run has logged every element.
C16_NoFailureMidRun ==
  /\ frames >= 1 => pc # "error"
  /\ \A n \in {"SimpleCLOCK", "EnhancedCLOCK"} :
       Running(n) => hand \in Slots /\ DOMAIN use_bit = Slots
  /\ \A n \in Names :
       Finished(n) => Len(process_displays[n]) = Len(page_sequence)

\* All six policies have finished a trace on which each of them replaced
\* pages.
C16_Witness ==
  /\ pc = "done"
  /\ \A n \in Names : Finished(n) /\ FinalReplacements(n) > 1

\* ---------------------------------------------------------------- C17
\* C17: a request for a trace of length 0 is rejected before the
\* simulation starts, so no rate is computed with zero processed steps as
\* its denominator: no run ends in ZeroDivisionError and every recorded
\* rate has a positive denominator.
C17_EmptyTraceRejected ==
  /\ sequence_size_entry = Text(TRUE, 0) =>
       pc \in {"request", "rejected"} /\ output_file = <<>>
  /\ pc # "error"
  /\ \A n \in Names :
       /\ \A k \in DOMAIN results[n].page_fault_rates :
            results[n].page_fault_rates[k][2] > 0
       /\ \A k \in DOMAIN results[n].replacement_rates :
            results[n].replacement_rates[k][2] > 0

\* A request for length 0 with a valid frame count has been rejected.
C17_Witness ==
  /\ pc = "rejected"
  /\ sequence_size_entry = Text(TRUE, 0)
  /\ is_valid_frame_number(frame_number)

\* ---------------------------------------------------------------- C18
\* The whole instance state right after construction of a policy.
Constructed(name) ==
  /\ memory = <<>>
  /\ page_faults = 0
  /\ page_hits = 0
  /\ replacements = 0
  /\ queue = <<>>
  /\ page_time = <<>>
  /\ page_frequency = <<>>
  /\ use_bit = IF name \in {"SimpleCLOCK", "EnhancedCLOCK"} THEN NoBits ELSE <<>>
  /\ modify_bit = IF name = "EnhancedCLOCK" THEN NoBits ELSE <<>>
  /\ hand = 0

C19_SweepReturnsRates ==
  /\ pc # "error"
  /\ pc = "done" =>
       \A n \in Names : Len(results[n].page_fault_rates) = 1

\* ---------------------------------------------------------------- C20
\* C20: EnhancedCLOCK: after every fault the use-bit of the slot that
\* holds the newly installed page is true.
C20_InstalledUseBitSet ==
  (/\ Running("EnhancedCLOCK")
   /\ pc = "loop"
   /\ i >= 1
   /\ ~HitAt(output_file, i)) =>
     use_bit[Index(memory, page_sequence[i]) - 1]

\* ---------------------------------------------------------------- C21
\* C21: on the same trace with the same frame count OPT faults at most as
\* often as each of FIFO, LRU, LFU, SimpleCLOCK and EnhancedCLOCK.
C21_OPTFaultsLeast ==
  \A n \in Names :
    Finished("OPT") /\ Finished(n) => FinalFaults("OPT") <= FinalFaults(n)

\* All six runs are over and OPT faulted strictly less often than each of
\* the other five policies.
C21_Witness ==
  /\ pc = "done"
  /\ \A n \in Names \ {"OPT"} :
       Finished(n) /\ FinalFaults("OPT") < FinalFaults(n)

\* ---------------------------------------------------------------- C22
\* C22: for each of the six policies, after every processed reference
\* page_faults = len(memory) + replacements, and during a run the resident
\* list never gets shorter: a fault appends one page, overwrites one slot
\* or removes one page and appends one.
C22_FaultsFillOrReplace ==
  [][/\ (pc' = "loop" /\ a' = a) =>
          page_faults' = Len(memory') + replacements'
     /\ (pc \in {"loop", "sweep"} /\ pc' \in {"loop", "sweep"}) =>
          /\ Len(memory') >= Len(memory)
          /\ Len(memory') <= Len(memory) + 1
          /\ Len(memory') = Len(memory) + 1 => replacements' = replacements
          /\ replacements' \in {replacements, replacements + 1}]_vars

\* The last policy of the sweep has filled its resident list and replaced
\* pages more than once, after each policy before it replaced pages too.
C22_Witness ==
  /\ Running("EnhancedCLOCK")
  /\ pc = "loop"
  /\ Len(memory) = frames
  /\ replacements >= 2
  /\ page_hits >= 1
  /\ \A n \in Names \ {"EnhancedCLOCK"} : Finished(n) /\ FinalReplacements(n) > 0

\* ---------------------------------------------------------------- C23
\* The slot under the hand ends the sweep of clock policy n.
Stops(n) ==
  IF n = "SimpleCLOCK" THEN ~use_bit[hand] ELSE Replaceable(hand)

\* C23: on every fault the victim sweep of SimpleCLOCK (while
\* use_bit[hand]) and of EnhancedCLOCK (while not replaced) terminates
\* after at most frames + 1 loop iterations with the requested page in the
\* resident list: inside a sweep at most `frames` iterations have passed
\* the hand on, after `frames` of them the slot under the hand ends the
\* sweep, and the step that leaves the sweep has installed the page.
C23_SweepTerminates ==
  [][/\ pc' = "sweep" =>
          /\ alg' \in Clocks
          /\ hand' \in DOMAIN use_bit'
          /\ entry'.iterations <= frames
          /\ entry'.iterations = frames => Stops(alg)'
     /\ pc = "sweep" =>
          \/ /\ pc' = "sweep"
             /\ entry'.iterations = entry.iterations + 1
          \/ /\ pc' = "loop"
             /\ entry'.iterations <= frames + 1
             /\ page \in Range(memory')
             /\ i' = i + 1]_vars

\* An EnhancedCLOCK sweep over two or more frames has ended after
\* frames + 1 iterations: every use bit was set when the fault came.
C23_Witness ==
  /\ Running("EnhancedCLOCK")
  /\ pc = "loop"
  /\ frames >= 2
  /\ entry.iterations = frames + 1
  /\ page_sequence[i] \in Range(memory)

====
